---- MODULE Spec2Model ----
(***************************************************************************)
(* The command / status protocol of hera_corr_cm over the redis store:     *)
(* HeraCorrCM (the Caller), HeraCorrHandler (the Executor) and the         *)
(* hera_corr_cmd_handler.py main loop.  One step is one access to the      *)
(* store (or one external sub-program run by the Executor).                *)
(***************************************************************************)
EXTENDS Integers, Sequences, FiniteSets, TLC

VARIABLES
    clock,            \* time.time(), in ticks of TickSeconds seconds
    command,          \* redis key  corr:command      (a JSON string or absent)
    cmd_status,       \* redis hash corr:cmd_status   (field -> value)
    is_taking_data,   \* redis hash corr:is_taking_data
    trig_time,        \* redis key  corr:trig_time
    script_key,       \* redis key  status:script:<host>:<file>, set with ex=30
    exs,              \* the Executor instances: HeraCorrHandler and its main loop
    callers,          \* the Callers: one HeraCorrCM operation in flight each
    switches,         \* redis hashes corr:status_phase_switch, _noise_diode, _load
    cm,               \* a call of redis_cm.read_cminfo_from_redis and its corr:map
    hist              \* history of the run (what was dispatched, written, published)

vars == <<clock, command, cmd_status, is_taking_data, trig_time, script_key,
          exs, callers, switches, cm, hist>>

(***************************************************************************)
(* Bounds of the model.                                                    *)
(***************************************************************************)
\* the clock stops after MaxTime ticks
MaxTime == 2
\* seconds per clock tick
TickSeconds == 90
\* number of Caller operations invoked in one run
MaxCalls == 2
\* number of times the data catcher changes corr:is_taking_data
MaxRecChanges == 2

(***************************************************************************)
(* Program constants.                                                      *)
(***************************************************************************)
\* take_data: self._get_response(sent_message, timeout=120)
TAKE_DATA_TIMEOUT == 120
\* stop_taking_data: self._get_response(sent_message, timeout=40)
STOP_TIMEOUT == 40
\* _stop: self._get_response(sent_message, timeout=120)
HARD_STOP_TIMEOUT == 120
\* handler.r.set(script_redis_key, "alive", ex=30)
SCRIPT_KEY_EX == 30
\* take_data: if time_diff > 250
TIME_DIFF_MAX == 250

\* the concurrent Callers
Callers == {1, 2}

\* the Executor instances: the one the script starts, and a second one that
\* may be started against the same store
Executors == {1, 2}

\* the Executor instance the script starts
ex == exs[1]

\* a redis key that does not exist, or a Python None where a dict is expected
Absent == [f \in {} |-> 0]

\* Python's None where a time is expected (times are never negative)
NoTime == -1

(***************************************************************************)
(* Encodings.                                                              *)
(***************************************************************************)
\* json.dumps of a dict, and json.loads of the string it made
JsonDumps(d) == [json |-> d]
JsonLoads(s) == s.json

\* str(float): the decimal text of a time (redis-py writes a float field as
\* repr(float), which Python 3 makes the same text)
FloatToStr(t) == [digits |-> t]
\* float(str)
StrToFloat(s) == s.digits

\* an empty redis hash (HGETALL of a missing key returns {})
EmptyHash == [f \in {} |-> 0]

\* HMSET: the given fields replace or extend those of the hash
Hmset(hash, mapping) == mapping @@ hash

\* dict.update(kwargs) on a dict
DictUpdate(d, kwargs) == kwargs @@ d

(***************************************************************************)
(* The Executor's status writes.                                           *)
(***************************************************************************)
\* HeraCorrHandler._create_status: the record written by the final hmset
CreateStatusRecord(cmd, command_time, status, kwargs, now) ==
    [command |-> cmd,
     time |-> FloatToStr(command_time),
     args |-> JsonDumps(kwargs),
     status |-> status,
     update_time |-> FloatToStr(now)]

\* an _update_status that writes the given keywords as the new arguments
UpdateStatus_ArgsReplaced(hash, status, kwargs, now) ==
    LET base == [status |-> status,
                 update_time |-> FloatToStr(now),
                 args |-> JsonDumps(kwargs)]
        command_status == IF status = "complete"
                          THEN [completion_time |-> FloatToStr(now)] @@ base
                          ELSE base
    IN  Hmset(hash, command_status)

\* HeraCorrHandler._update_status: the hash after its hmset
UpdateStatus(hash, status, kwargs, now) ==
    LET args == DictUpdate(JsonLoads(hash.args), kwargs)
        base == [status |-> status,
                 update_time |-> FloatToStr(now),
                 args |-> JsonDumps(args)]
        command_status == IF status = "complete"
                          THEN [completion_time |-> FloatToStr(now)] @@ base
                          ELSE base
    IN  Hmset(hash, command_status)

\* _update_status reads hget(..., "args") and json.loads it: None raises
UpdateStatusRaises(hash) == "args" \notin DOMAIN hash

NoKwargs == [f \in {} |-> 0]

(***************************************************************************)
(* The Executor: scripts/hera_corr_cmd_handler.py and HeraCorrHandler.     *)
(***************************************************************************)
\* the commands _cmd_handler has a branch for
HandledCommands == {"record", "stop", "hard_stop", "start"}

\* exit codes of the sub-programs the Executor runs
ReturnCodes == {0, 1}

\* values hera_ctl.py leaves in corr:trig_time (seconds)
TrigTimes == {0, 1}

\* (command, time) of a decoded envelope
Identity(d) == [command |-> d.command, time |-> d.time]

\* history: the Executor wrote the status hash while handling envelope exs[i].d
Wrote(i, h) == [h EXCEPT !.owner = Identity(exs[i].d)]

\* the Executor dies of an uncaught exception
ExRaise(i) == exs' = [exs EXCEPT ![i] = [exs[i] EXCEPT !.pc = "crashed"]]

\* the Executor returns to the top of its main loop
ExReturn(i) == exs' = [exs EXCEPT ![i] = [exs[i] EXCEPT !.pc = "sleep"]]

\* a main loop that goes to process_command without writing its key
main_loop_set_key_NoHeartbeat(i) ==
    /\ exs[i].pc = "sleep"
    /\ exs' = [exs EXCEPT ![i] = [exs[i] EXCEPT !.pc = "process_command"]]
    /\ UNCHANGED <<clock, switches, cm, command, cmd_status, is_taking_data, trig_time,
                   script_key, callers, hist>>

\* main loop: time.sleep(1); handler.r.set(script_redis_key, "alive", ex=30)
main_loop_set_key(i) ==
    /\ exs[i].pc = "sleep"
    /\ script_key' = [value |-> "alive", ttl |-> SCRIPT_KEY_EX]
    /\ exs' = [exs EXCEPT ![i] = [exs[i] EXCEPT !.pc = "process_command"]]
    /\ UNCHANGED <<clock, switches, cm, command, cmd_status, is_taking_data, trig_time, callers, hist>>

\* a dedup test that also lets an equal command time through
Newer_OrEqual(command_time, last_command_time) == command_time >= last_command_time

\* process_command's test of a command time against last_command_time
Newer(command_time, last_command_time) == command_time > last_command_time

\* where _cmd_handler goes first, by command name
CmdHandlerEntry(cmd) ==
    IF cmd \in HandledCommands THEN "create_status_hdel" ELSE "sleep"

\* a first read that hands the envelope to _cmd_handler
FirstReadEntry_Dispatch(cmd) == CmdHandlerEntry(cmd)

\* where process_command goes with the first envelope an instance reads
\* (last_command_time is None): it records the time and does not execute
FirstReadEntry(cmd) == "sleep"

\* a process_command that dispatches without recording the command time
process_command_NoMarker(i) ==
    /\ exs[i].pc = "process_command"
    /\ IF command = Absent
       THEN /\ ExReturn(i)
            /\ UNCHANGED hist
       ELSE LET d == JsonLoads(command)
                command_time == d.time
            IN  IF exs[i].last_command_time # NoTime
                THEN IF Newer(command_time, exs[i].last_command_time)
                     THEN /\ exs' = [exs EXCEPT ![i] = [exs[i] EXCEPT
                                              !.d = d,
                                              !.pc = CmdHandlerEntry(d.command)]]
                          /\ hist' = [hist EXCEPT
                                        !.dispatched = @ \cup {Identity(d)},
                                        !.dispatched_by = @ \cup {<<i, Identity(d)>>},
                                        !.failed = FALSE,
                                        !.written = FALSE]
                     ELSE /\ ExReturn(i)
                          /\ hist' = [hist EXCEPT !.reread =
                                        @ \/ Identity(d) \in hist.dispatched]
                ELSE /\ exs' = [exs EXCEPT ![i] = [exs[i] EXCEPT !.last_command_time = command_time,
                                         !.pc = FirstReadEntry(d.command)]]
                     /\ UNCHANGED hist
    /\ UNCHANGED <<clock, switches, cm, command, cmd_status, is_taking_data, trig_time, script_key, callers>>

\* HeraCorrHandler.process_command, up to the call of _cmd_handler
process_command(i) ==
    /\ exs[i].pc = "process_command"
    /\ IF command = Absent
       THEN /\ ExReturn(i)
            /\ UNCHANGED hist
       ELSE LET d == JsonLoads(command)
                command_time == d.time
            IN  IF exs[i].last_command_time # NoTime
                THEN IF Newer(command_time, exs[i].last_command_time)
                     THEN /\ exs' = [exs EXCEPT ![i] = [exs[i] EXCEPT !.last_command_time = command_time,
                                              !.d = d,
                                              !.pc = CmdHandlerEntry(d.command)]]
                          /\ hist' = [hist EXCEPT
                                        !.dispatched = @ \cup {Identity(d)},
                                        !.dispatched_by = @ \cup {<<i, Identity(d)>>},
                                        !.failed = FALSE,
                                        !.written = FALSE]
                     ELSE /\ ExReturn(i)
                          /\ hist' = [hist EXCEPT !.reread =
                                        @ \/ Identity(d) \in hist.dispatched]
                ELSE /\ exs' = [exs EXCEPT ![i] = [exs[i] EXCEPT !.last_command_time = command_time,
                                         !.pc = FirstReadEntry(d.command)]]
                     /\ UNCHANGED hist
    /\ UNCHANGED <<clock, switches, cm, command, cmd_status, is_taking_data, trig_time, script_key, callers>>

\* a _create_status that does not clear out the record of the last command
create_status_hdel_Keep(i) ==
    /\ exs[i].pc = "create_status_hdel"
    /\ exs' = [exs EXCEPT ![i] = [exs[i] EXCEPT !.pc = "create_status_hmset"]]
    /\ UNCHANGED <<clock, switches, cm, command, cmd_status, is_taking_data, trig_time,
                   script_key, callers, hist>>

\* _create_status: if the hash is not empty, hdel every field of it
create_status_hdel(i) ==
    /\ exs[i].pc = "create_status_hdel"
    /\ cmd_status' = EmptyHash
    /\ exs' = [exs EXCEPT ![i] = [exs[i] EXCEPT !.pc = "create_status_hmset"]]
    /\ UNCHANGED <<clock, switches, cm, command, is_taking_data, trig_time, script_key, callers, hist>>

\* where _cmd_handler goes after _create_status, by command name and testmode
AfterCreate(cmd, testmode) ==
    IF testmode
    THEN IF cmd = "record" THEN "record_finish" ELSE "sleep"
    ELSE CASE cmd = "record" -> "stop_capture"
           [] cmd = "stop" -> "stop_capture"
           [] cmd = "hard_stop" -> "xtor_down"
           [] cmd = "start" -> "xtor_up"

\* a _create_status that reads the command slot again for the record it writes
create_status_hmset_Reread(i) ==
    /\ exs[i].pc = "create_status_hmset"
    /\ LET d == JsonLoads(command)
       IN  cmd_status' = Hmset(cmd_status,
                               CreateStatusRecord(d.command, d.time, "running",
                                                  d.args, clock))
    /\ exs' = [exs EXCEPT ![i] = [exs[i] EXCEPT !.pc = AfterCreate(exs[i].d.command, exs[i].testmode)]]
    /\ hist' = Wrote(i, hist)
    /\ UNCHANGED <<clock, switches, cm, command, is_taking_data, trig_time, script_key, callers>>

\* _create_status: hmset of the new record, status "running"
create_status_hmset(i) ==
    /\ exs[i].pc = "create_status_hmset"
    /\ cmd_status' = Hmset(cmd_status,
                           CreateStatusRecord(exs[i].d.command, exs[i].d.time, "running",
                                              exs[i].d.args, clock))
    /\ exs' = [exs EXCEPT ![i] = [exs[i] EXCEPT !.pc = AfterCreate(exs[i].d.command, exs[i].testmode)]]
    /\ hist' = Wrote(i, [hist EXCEPT !.written =
                        /\ cmd_status'.command = exs[i].d.command
                        /\ StrToFloat(cmd_status'.time) = exs[i].d.time
                        /\ JsonLoads(cmd_status'.args) = exs[i].d.args
                        /\ cmd_status'.status = "running"])
    /\ UNCHANGED <<clock, switches, cm, command, is_taking_data, trig_time, script_key, callers>>

\* a call self._update_status(status=..., **kwargs), then going to pc `next`;
\* h is the history so far
DoUpdateStatus(i, status, kwargs, next, h) ==
    IF UpdateStatusRaises(cmd_status)
    THEN /\ ExRaise(i)
         /\ UNCHANGED cmd_status
         /\ hist' = h
    ELSE /\ cmd_status' = UpdateStatus(cmd_status, status, kwargs, clock)
         /\ exs' = [exs EXCEPT ![i] = [exs[i] EXCEPT !.pc = next]]
         /\ hist' = Wrote(i, h)

\* the status _stop_capture writes when the X-engines did not stop in TIMEOUT
StopCaptureFailedStatus == "complete"

\* HeraCorrHandler._stop_capture; how the X-engines react is the environment's
stop_capture(i) ==
    /\ exs[i].pc = "stop_capture"
    /\ LET next == IF exs[i].d.command = "record" THEN "ctl_start" ELSE "sleep"
       IN  \E outcome \in {"already_stopped", "stopped", "not_stopped"} :
             CASE outcome = "already_stopped" ->
                    \* _gpu_is_off() and _outthread_is_blocked(): return
                    /\ exs' = [exs EXCEPT ![i] = [exs[i] EXCEPT !.pc = next]]
                    /\ UNCHANGED <<cmd_status, hist>>
               [] outcome = "stopped" ->
                    DoUpdateStatus(i, "complete", NoKwargs, next, hist)
               [] outcome = "not_stopped" ->
                    DoUpdateStatus(i, StopCaptureFailedStatus, NoKwargs, next,
                                   [hist EXCEPT !.failed = TRUE])
    /\ UNCHANGED <<clock, switches, cm, command, is_taking_data, trig_time, script_key, callers>>

\* _start_capture: Popen(["hera_ctl.py", "start", ...]); a non-zero exit calls
\* self._update_status(time.time(), status="errored"), which is a TypeError
\* (two values for `status`)
start_capture_ctl(i) ==
    /\ exs[i].pc = "ctl_start"
    /\ \E rc \in ReturnCodes :
         IF rc # 0
         THEN /\ ExRaise(i)
              /\ hist' = [hist EXCEPT !.failed = TRUE]
              /\ UNCHANGED trig_time
         ELSE /\ exs' = [exs EXCEPT ![i] = [exs[i] EXCEPT !.pc = "take_data"]]
              /\ \E t \in TrigTimes : trig_time' = t
              /\ UNCHANGED hist
    /\ UNCHANGED <<clock, switches, cm, command, cmd_status, is_taking_data, script_key, callers>>

\* _start_capture: Popen(["hera_catcher_take_data.py", ...]) and the status
\* written for its exit code; both ways control returns to _cmd_handler
start_capture_take_data(i) ==
    /\ exs[i].pc = "take_data"
    /\ \E rc \in ReturnCodes :
         IF rc # 0
         THEN DoUpdateStatus(i, "errored", NoKwargs, "record_finish",
                             [hist EXCEPT !.failed = TRUE])
         ELSE DoUpdateStatus(i, "complete", NoKwargs, "record_finish", hist)
    /\ UNCHANGED <<clock, switches, cm, command, is_taking_data, trig_time, script_key, callers>>

\* _cmd_handler, "record": starttime = float(self.r["corr:trig_time"]) * 1000;
\* self._update_status(status="complete", starttime=starttime)
cmd_handler_record_finish(i) ==
    /\ exs[i].pc = "record_finish"
    /\ IF trig_time = NoTime
       THEN /\ ExRaise(i)
            /\ UNCHANGED <<cmd_status, hist>>
       ELSE DoUpdateStatus(i, "complete", [starttime |-> trig_time * 1000], "sleep", hist)
    /\ UNCHANGED <<clock, switches, cm, command, is_taking_data, trig_time, script_key, callers>>

\* HeraCorrHandler._xtor_down
xtor_down(i) ==
    /\ exs[i].pc = "xtor_down"
    /\ DoUpdateStatus(i, "complete", NoKwargs, "sleep", hist)
    /\ UNCHANGED <<clock, switches, cm, command, is_taking_data, trig_time, script_key, callers>>

\* HeraCorrHandler._xtor_up: the first sub-program that exits non-zero ends it
\* with status "errored"; when none does, status "complete"
xtor_up(i) ==
    /\ exs[i].pc = "xtor_up"
    /\ \E rc \in ReturnCodes :
         IF rc # 0
         THEN DoUpdateStatus(i, "errored", NoKwargs, "sleep",
                             [hist EXCEPT !.failed = TRUE])
         ELSE DoUpdateStatus(i, "complete", NoKwargs, "sleep", hist)
    /\ UNCHANGED <<clock, switches, cm, command, is_taking_data, trig_time, script_key, callers>>

\* the script is started again after it died: a new HeraCorrHandler
executor_restart(i) ==
    /\ exs[i].pc = "crashed"
    /\ exs' = [exs EXCEPT ![i] = [exs[i] EXCEPT !.pc = "sleep", !.last_command_time = NoTime, !.d = Absent]]
    /\ hist' = [hist EXCEPT !.dispatched = {}, !.reread = FALSE]
    /\ UNCHANGED <<clock, switches, cm, command, cmd_status, is_taking_data, trig_time, script_key, callers>>

(***************************************************************************)
(* The recording flag, written by the data catcher.                        *)
(***************************************************************************)
\* the catcher sets corr:is_taking_data when a capture starts or stops
catcher_set_is_taking_data ==
    /\ hist.nrec < MaxRecChanges
    /\ \E state \in {"True", "False"} :
         is_taking_data' = [state |-> state, time |-> FloatToStr(clock)]
    /\ hist' = [hist EXCEPT !.nrec = @ + 1]
    /\ UNCHANGED <<clock, switches, cm, command, cmd_status, trig_time, script_key, exs, callers>>

\* a key set with ex=... after `seconds` more seconds: gone when its time is up
Expire(key, seconds) ==
    IF key = Absent \/ key.ttl <= seconds
    THEN Absent
    ELSE [key EXCEPT !.ttl = @ - seconds]

\* time passes up to `max` ticks: one tick of TickSeconds seconds
TickTo(max) ==
    /\ clock < max
    /\ clock' = clock + 1
    /\ script_key' = Expire(script_key, TickSeconds)
    /\ UNCHANGED <<switches, cm, command, cmd_status, is_taking_data, trig_time, exs,
                   callers, hist>>

Tick == TickTo(MaxTime)

(***************************************************************************)
(* The Caller: HeraCorrCM.                                                 *)
(***************************************************************************)
\* an is_recording that trusts the flag only when it was set at the current time
is_recording_Fresh ==
    IF is_taking_data = Absent
    THEN [recording |-> FALSE, time |-> NoTime]
    ELSE [recording |-> /\ is_taking_data.state = "True"
                        /\ StrToFloat(is_taking_data.time) = clock,
          time |-> StrToFloat(is_taking_data.time)]

\* HeraCorrCM.is_recording: (recording_state, time of last change)
is_recording ==
    IF is_taking_data = Absent
    THEN [recording |-> FALSE, time |-> NoTime]
    ELSE [recording |-> is_taking_data.state = "True",
          time |-> StrToFloat(is_taking_data.time)]

\* a guard that lets every command through
require_not_recording_Unchecked(danger_mode) == TRUE

\* HeraCorrCM._require_not_recording
require_not_recording(danger_mode) ==
    IF is_recording.recording
    THEN IF danger_mode THEN TRUE ELSE FALSE
    ELSE TRUE

\* the operations that call _require_not_recording before they publish
GuardedOps == {"phase_switch_disable", "phase_switch_enable", "antenna_enable",
               "noise_diode_enable", "load_enable"}

\* the operations that only call antenna_enable
DisableOps == {"noise_diode_disable", "load_disable"}

\* the operations that publish without reading the recording flag
UnguardedOps == {"stop_taking_data", "set_eq_coeffs", "set_pam_atten",
                 "get_pam_atten", "restart", "_stop", "_start"}

\* the command an operation publishes first
OpCommand(op) ==
    CASE op = "take_data" -> "record"
      [] op = "stop_taking_data" -> "stop"
      [] op \in {"phase_switch_disable", "phase_switch_enable"} -> "phase_switch"
      [] op \in {"antenna_enable", "noise_diode_enable", "load_enable"} -> "rf_switch"
      [] op \in DisableOps -> "rf_switch"
      [] op = "set_eq_coeffs" -> "snap_eq"
      [] op \in {"set_pam_atten", "get_pam_atten"} -> "pam_atten"
      [] op \in {"restart", "_stop"} -> "stop"
      [] op = "_start" -> "start"

\* requested start times of take_data (ms)
StartTimes == {0, 1000}

\* the keyword arguments an operation publishes with its first command
OpArgs(op, starttime) ==
    CASE op = "take_data" ->
           [starttime |-> starttime, duration |-> 10, tag |-> "tag", acclen |-> 2048]
      [] op = "phase_switch_disable" -> [activate |-> FALSE]
      [] op = "phase_switch_enable" -> [activate |-> TRUE]
      [] op \in {"antenna_enable"} \cup DisableOps ->
           [ant |-> "None", input_sel |-> "antenna"]
      [] op = "noise_diode_enable" -> [ant |-> "None", input_sel |-> "noise"]
      [] op = "load_enable" -> [ant |-> "None", input_sel |-> "load"]
      [] op = "set_eq_coeffs" -> [ant |-> "0", pol |-> "e", coeffs |-> <<1>>]
      [] op = "set_pam_atten" -> [ant |-> "0", pol |-> "e", rw |-> "w", val |-> 8]
      [] op = "get_pam_atten" -> [ant |-> "0", pol |-> "e", rw |-> "r"]
      [] OTHER -> NoKwargs

\* the timeout _get_response is given for a command (NoTime: timeout=None)
TimeoutOf(op, cmd) ==
    CASE op = "take_data" -> TAKE_DATA_TIMEOUT
      [] cmd = "stop" -> STOP_TIMEOUT
      [] cmd = "hard_stop" -> HARD_STOP_TIMEOUT
      [] OTHER -> NoTime

\* a Caller with no operation in flight
IdleCaller ==
    [pc |-> "idle", op |-> "", cmd |-> "", args |-> NoKwargs,
     sent |-> Absent, wait_time |-> NoTime, stop_stat |-> FALSE,
     danger_mode |-> FALSE,
     ret |-> [kind |-> "none", val |-> 0],
     resp |-> "none",
     late_saw |-> "none", saw_cleared |-> FALSE]

\* Callers are interchangeable: Caller c is first used after every Caller
\* numbered below it
MayBegin(c) ==
    /\ callers[c].pc \in {"idle", "done"}
    /\ \A k \in Callers : k < c => callers[k].pc # "idle"
    /\ hist.ncalls < MaxCalls

RetBool(b) == [kind |-> "bool", val |-> IF b THEN 1 ELSE 0]
RetNumber(n) == [kind |-> "number", val |-> n]
RetNone == [kind |-> "none", val |-> 0]

\* What operation op returns where antenna_enable, phase_switch_enable, ...
\* return ret: noise_diode_disable and load_disable call antenna_enable and
\* have no return statement
OpReturn(op, ret) == IF op \in DisableOps THEN RetNone ELSE ret

\* HeraCorrCM._send_message: the JSON string it builds, stamped time.time()
Message(cmd, args, now) == JsonDumps([command |-> cmd, time |-> now, args |-> args])

\* _send_message followed by the start of _get_response (wait_time = time.time())
SendMessage(c, cmd, args) ==
    LET message == Message(cmd, args, clock)
    IN  /\ command' = message
        /\ callers' = [callers EXCEPT ![c].pc = "get_response",
                                      ![c].cmd = cmd,
                                      ![c].args = args,
                                      ![c].sent = message,
                                      ![c].wait_time = clock,
                                      ![c].late_saw = "none",
                                      ![c].saw_cleared = FALSE]
        /\ UNCHANGED hist

\* an operation that consults _require_not_recording is called
begin_guarded(c) ==
    /\ MayBegin(c)
    /\ \E op \in GuardedOps \cup DisableOps, danger_mode \in BOOLEAN :
         IF ~ require_not_recording(danger_mode)
         THEN /\ callers' = [callers EXCEPT ![c] =
                 [IdleCaller EXCEPT !.pc = "done", !.op = op,
                                    !.danger_mode = danger_mode,
                                    !.ret = OpReturn(op, RetBool(FALSE))]]
              /\ hist' = [hist EXCEPT !.ncalls = @ + 1,
                                      !.stale_block = @ \/ is_recording.time < clock]
         ELSE /\ callers' = [callers EXCEPT ![c] =
                 [IdleCaller EXCEPT !.pc = "send", !.op = op,
                                    !.cmd = OpCommand(op),
                                    !.args = OpArgs(op, 0),
                                    !.danger_mode = danger_mode]]
              /\ hist' = [hist EXCEPT !.ncalls = @ + 1]
    /\ UNCHANGED <<clock, switches, cm, command, cmd_status, is_taking_data, trig_time, script_key, exs>>

\* take_data is called: it reads is_recording itself and has no override
begin_take_data(c) ==
    /\ MayBegin(c)
    /\ \E starttime \in StartTimes :
         IF is_recording.recording
         THEN callers' = [callers EXCEPT ![c] =
                 [IdleCaller EXCEPT !.pc = "done", !.op = "take_data",
                                    !.ret = RetBool(FALSE)]]
         ELSE callers' = [callers EXCEPT ![c] =
                 [IdleCaller EXCEPT !.pc = "send", !.op = "take_data",
                                    !.cmd = "record",
                                    !.args = OpArgs("take_data", starttime)]]
    /\ hist' = [hist EXCEPT !.ncalls = @ + 1]
    /\ UNCHANGED <<clock, switches, cm, command, cmd_status, is_taking_data, trig_time, script_key, exs>>

\* an operation that publishes at once is called: its first _send_message
begin_unguarded(c) ==
    /\ MayBegin(c)
    /\ \E op \in UnguardedOps :
         LET message == Message(OpCommand(op), OpArgs(op, 0), clock)
         IN  /\ command' = message
             /\ callers' = [callers EXCEPT ![c] =
                   [IdleCaller EXCEPT !.pc = "get_response", !.op = op,
                                      !.cmd = OpCommand(op),
                                      !.args = OpArgs(op, 0),
                                      !.sent = message,
                                      !.wait_time = clock]]
             /\ hist' = [hist EXCEPT !.ncalls = @ + 1]
    /\ UNCHANGED <<clock, switches, cm, cmd_status, is_taking_data, trig_time, script_key, exs>>

\* the _send_message of an operation that passed its guard, and of the later
\* commands of restart
send_message(c) ==
    /\ callers[c].pc = "send"
    /\ SendMessage(c, callers[c].cmd, callers[c].args)
    /\ UNCHANGED <<clock, switches, cm, cmd_status, is_taking_data, trig_time, script_key, exs>>

\* _get_response: time.time() - wait_time, in seconds
Elapsed(wait_time, now) == (now - wait_time) * TickSeconds

\* a deadline test that fires before the deadline and not after it
TimedOut_Before(timeout, wait_time, now) ==
    /\ timeout # NoTime
    /\ Elapsed(wait_time, now) < timeout

\* a deadline test that never fires
TimedOut_Never(timeout, wait_time, now) == FALSE

\* _get_response: time.time() - wait_time > timeout, for a timeout that is not None
TimedOut(timeout, wait_time, now) ==
    /\ timeout # NoTime
    /\ Elapsed(wait_time, now) > timeout

\* a match on the command name alone
Matches_NameOnly(command_status, sent_message) ==
    command_status.command = sent_message.command

\* _get_response: the test that a status record is the answer to sent_message
Matches(command_status, sent_message) ==
    /\ command_status.command = sent_message.command
    /\ command_status.time = FloatToStr(sent_message.time)

\* json.loads(s) returns: s is a JSON text
Decodes(s) == "json" \in DOMAIN s

\* a pass of the loop that takes an errored record for a result
GetResponsePoll_ErroredIsResult(command_status, sent_message, timeout, wait_time, now) ==
    IF command_status # EmptyHash /\ "args" \in DOMAIN command_status
       /\ Matches(command_status, sent_message)
       /\ command_status.status \in {"errored", "complete"}
    THEN [kind |-> "complete", response |-> JsonLoads(command_status.args)]
    ELSE [kind |-> "continue"]

\* a pass of the loop that looks at the deadline before it looks at the record
GetResponsePoll_DeadlineFirst(command_status, sent_message, timeout, wait_time, now) ==
    IF TimedOut(timeout, wait_time, now)
    THEN [kind |-> "timeout"]
    ELSE IF command_status = EmptyHash
    THEN [kind |-> "continue"]
    ELSE IF "args" \notin DOMAIN command_status
    THEN [kind |-> "continue"]
    ELSE IF ~ Decodes(command_status.args)
    THEN [kind |-> "raise"]
    ELSE IF ~ ({"command", "time"} \subseteq DOMAIN command_status)
    THEN [kind |-> "raise"]
    ELSE IF Matches(command_status, sent_message)
    THEN IF "status" \notin DOMAIN command_status
         THEN [kind |-> "raise"]
         ELSE
         CASE command_status.status = "running" ->
                IF TimedOut(timeout, wait_time, now)
                THEN [kind |-> "timeout"]
                ELSE [kind |-> "continue"]
           [] command_status.status = "errored" -> [kind |-> "errored"]
           [] command_status.status = "complete" ->
                [kind |-> "complete", response |-> JsonLoads(command_status.args)]
           [] OTHER -> [kind |-> "continue"]
    ELSE [kind |-> "continue"]

\* ord() of the first character of the decimal text of a time that is not
\* negative: a digit
TimeInitial(time_text) ==
    LET t == time_text.digits
        lead[n \in Nat] == IF n < 10 THEN n ELSE lead[n \div 10]
    IN  48 + lead[t]

\* ord() of the first character of a command name: a lowercase letter
CommandInitial(target_cmd) ==
    CASE target_cmd \in {"record", "rf_switch"} -> 114
      [] target_cmd \in {"stop", "start", "snap_eq"} -> 115
      [] target_cmd = "hard_stop" -> 104
      [] target_cmd \in {"phase_switch", "pam_atten"} -> 112
      [] target_cmd = "other" -> 111

\* _get_response: command_status["time"] < target_cmd, the comparison of two
\* strings by their characters; the first characters always differ
StrLess(time_text, target_cmd) == TimeInitial(time_text) < CommandInitial(target_cmd)

\* a pass of the loop that gives up on a record it takes for an older one
GetResponsePoll_OlderGivesUp(command_status, sent_message, timeout, wait_time, now) ==
    IF command_status = EmptyHash
    THEN [kind |-> "continue"]
    ELSE IF "args" \notin DOMAIN command_status
    THEN [kind |-> "continue"]
    ELSE IF ~ Decodes(command_status.args)
    THEN [kind |-> "raise"]
    ELSE IF ~ ({"command", "time"} \subseteq DOMAIN command_status)
    THEN [kind |-> "raise"]
    ELSE IF Matches(command_status, sent_message)
    THEN IF "status" \notin DOMAIN command_status
         THEN [kind |-> "raise"]
         ELSE
         CASE command_status.status = "running" ->
                IF TimedOut(timeout, wait_time, now)
                THEN [kind |-> "timeout"]
                ELSE [kind |-> "continue"]
           [] command_status.status = "errored" -> [kind |-> "errored"]
           [] command_status.status = "complete" ->
                [kind |-> "complete", response |-> JsonLoads(command_status.args)]
           [] OTHER -> [kind |-> "continue"]
    ELSE IF StrLess(command_status.time, sent_message.command)
    THEN [kind |-> "timeout"]
    ELSE [kind |-> "continue"]

\* One pass of the loop of _get_response over the hash it read.  The result is
\* [kind |-> "continue"], or a return: [kind |-> "timeout"] and
\* [kind |-> "errored"] return None, [kind |-> "complete"] returns `response`;
\* or [kind |-> "raise"]: an exception leaves the loop.  Only the KeyError of
\* a missing "args" is caught: json.loads of a string that is no JSON raises
\* ValueError, and the reads of "command", "time" (on either side of the
\* match test) and "status" raise KeyError when the field is missing.  A
\* record that does not match is compared, its time with the command name, and
\* either way the loop goes on.
GetResponsePoll(command_status, sent_message, timeout, wait_time, now) ==
    IF command_status = EmptyHash
    THEN [kind |-> "continue"]
    ELSE IF "args" \notin DOMAIN command_status
    THEN [kind |-> "continue"]
    ELSE IF ~ Decodes(command_status.args)
    THEN [kind |-> "raise"]
    ELSE IF ~ ({"command", "time"} \subseteq DOMAIN command_status)
    THEN [kind |-> "raise"]
    ELSE IF Matches(command_status, sent_message)
    THEN IF "status" \notin DOMAIN command_status
         THEN [kind |-> "raise"]
         ELSE
         CASE command_status.status = "running" ->
                IF TimedOut(timeout, wait_time, now)
                THEN [kind |-> "timeout"]
                ELSE [kind |-> "continue"]
           [] command_status.status = "errored" -> [kind |-> "errored"]
           [] command_status.status = "complete" ->
                [kind |-> "complete", response |-> JsonLoads(command_status.args)]
           [] OTHER -> [kind |-> "continue"]
    ELSE IF StrLess(command_status.time, sent_message.command)
    THEN [kind |-> "continue"]
    ELSE [kind |-> "continue"]

\* What a pass of the loop read, for the record of the run: an empty hash, a
\* record of another envelope, or the record of sent_message with its status
Seen(command_status, sent_message) ==
    IF command_status = EmptyHash
    THEN "empty"
    ELSE IF "args" \in DOMAIN command_status
            /\ command_status.command = sent_message.command
            /\ command_status.time = FloatToStr(sent_message.time)
    THEN command_status.status
    ELSE "other"

\* The record of the run kept for a pass of the loop that did not return:
\* late_saw is what a pass made more than `timeout` seconds after wait_time
\* read, saw_cleared that a pass read the hash empty after a status had been
\* written to it.
Polled(cl, command_status, timeout, now) ==
    [cl EXCEPT
       !.late_saw = IF timeout # NoTime /\ Elapsed(cl.wait_time, now) > timeout
                    THEN Seen(command_status, JsonLoads(cl.sent))
                    ELSE @,
       !.saw_cleared = @ \/ (command_status = EmptyHash /\ hist.owner # Absent)]

\* take_data after _get_response returned `response` (not None)
TakeDataResult(starttime, response) ==
    IF "starttime" \notin DOMAIN response
    THEN RetBool(FALSE)
    ELSE LET time_diff == starttime - response.starttime
         IN  IF time_diff > TIME_DIFF_MAX
             THEN RetBool(FALSE)
             ELSE RetNumber(response.starttime)

\* a restart and a _stop that give up when stop_taking_data failed
Continue_GiveUpAfterStop(cl, r) ==
    LET ok == r.kind = "complete"
        done(ret) == [cl EXCEPT !.pc = "done", !.ret = ret,
                                !.late_saw = "none", !.saw_cleared = FALSE]
    IN  CASE cl.op = "take_data" ->
               IF ok THEN done(TakeDataResult(cl.args.starttime, r.response))
                     ELSE done(RetBool(FALSE))
          [] cl.op \in {"stop_taking_data", "set_eq_coeffs", "set_pam_atten"} ->
               done(RetBool(ok))
          [] cl.op = "get_pam_atten" ->
               IF ok /\ "val" \in DOMAIN r.response
               THEN done(RetNumber(r.response.val))
               ELSE done(RetBool(FALSE))
          [] cl.op \in GuardedOps \cup DisableOps ->
               IF ok THEN [cl EXCEPT !.pc = "verify", !.late_saw = "none",
                                     !.saw_cleared = FALSE]
                     ELSE done(OpReturn(cl.op, RetBool(FALSE)))
          [] cl.op \in {"restart", "_stop"} /\ cl.cmd = "stop" ->
               IF ok
               THEN [cl EXCEPT !.pc = "send", !.cmd = "hard_stop", !.args = NoKwargs]
               ELSE done(RetBool(FALSE))
          [] cl.op = "_stop" /\ cl.cmd = "hard_stop" ->
               done(RetBool(ok))
          [] cl.op = "restart" /\ cl.cmd = "hard_stop" ->
               \* restart: stop_stat = self._stop(); then self._start()
               [cl EXCEPT !.pc = "send", !.cmd = "start", !.args = NoKwargs,
                          !.stop_stat = ok]
          [] cl.op = "restart" /\ cl.cmd = "start" ->
               done(RetBool(cl.stop_stat /\ ok))
          [] cl.op = "_start" ->
               done(RetBool(ok))

\* What an operation does when _get_response has returned r: the Caller's
\* record after it.
Continue(cl, r) ==
    LET ok == r.kind = "complete"
        done(ret) == [cl EXCEPT !.pc = "done", !.ret = ret,
                                !.late_saw = "none", !.saw_cleared = FALSE]
    IN  CASE cl.op = "take_data" ->
               IF ok THEN done(TakeDataResult(cl.args.starttime, r.response))
                     ELSE done(RetBool(FALSE))
          [] cl.op \in {"stop_taking_data", "set_eq_coeffs", "set_pam_atten"} ->
               done(RetBool(ok))
          [] cl.op = "get_pam_atten" ->
               IF ok /\ "val" \in DOMAIN r.response
               THEN done(RetNumber(r.response.val))
               ELSE done(RetBool(FALSE))
          [] cl.op \in GuardedOps \cup DisableOps ->
               IF ok THEN [cl EXCEPT !.pc = "verify", !.late_saw = "none",
                                     !.saw_cleared = FALSE]
                     ELSE done(OpReturn(cl.op, RetBool(FALSE)))
          [] cl.op \in {"restart", "_stop"} /\ cl.cmd = "stop" ->
               \* _stop: the result of stop_taking_data is dropped (is_recording
               \* is read for a log line only); hard_stop is published next
               [cl EXCEPT !.pc = "send", !.cmd = "hard_stop", !.args = NoKwargs]
          [] cl.op = "_stop" /\ cl.cmd = "hard_stop" ->
               done(RetBool(ok))
          [] cl.op = "restart" /\ cl.cmd = "hard_stop" ->
               \* restart: stop_stat = self._stop(); then self._start()
               [cl EXCEPT !.pc = "send", !.cmd = "start", !.args = NoKwargs,
                          !.stop_stat = ok]
          [] cl.op = "restart" /\ cl.cmd = "start" ->
               done(RetBool(cl.stop_stat /\ ok))
          [] cl.op = "_start" ->
               done(RetBool(ok))

\* a wait that withdraws its command from the command slot when it gives up
get_response_Withdraw(c) ==
    /\ callers[c].pc = "get_response"
    /\ TimedOut(TimeoutOf(callers[c].op, callers[c].cmd), callers[c].wait_time, clock)
    /\ callers' = [callers EXCEPT ![c] =
                     Continue([callers[c] EXCEPT !.resp = "timeout"], [kind |-> "timeout"])]
    /\ command' = Absent
    /\ UNCHANGED <<clock, switches, cm, cmd_status, is_taking_data, trig_time, script_key, exs, hist>>

\* one pass of the polling loop of _get_response: hgetall("corr:cmd_status")
get_response(c) ==
    /\ callers[c].pc = "get_response"
    /\ LET cl == callers[c]
           r == GetResponsePoll(cmd_status, JsonLoads(cl.sent),
                                TimeoutOf(cl.op, cl.cmd), cl.wait_time, clock)
       IN  IF r.kind = "continue"
           THEN callers' = [callers EXCEPT ![c] =
                              Polled(cl, cmd_status, TimeoutOf(cl.op, cl.cmd), clock)]
           ELSE IF r.kind = "raise"
           THEN callers' = [callers EXCEPT ![c] =
                              [cl EXCEPT !.pc = "raised", !.resp = "raise",
                                         !.late_saw = "none", !.saw_cleared = FALSE]]
           ELSE callers' = [callers EXCEPT ![c] = Continue([cl EXCEPT !.resp = r.kind], r)]
    /\ UNCHANGED <<clock, switches, cm, command, cmd_status, is_taking_data, trig_time, script_key,
                   exs, hist>>

\* the state of a switch as phase_switch_is_on, noise_diode_is_on and
\* load_is_on read it: x["state"] == "on"
IsOn(hash) == hash.state = "on"

\* The test an operation makes after _get_response returned a response: the
\* phase switch operations read corr:status_phase_switch; the rf switch
\* operations read corr:status_noise_diode and corr:status_load only when
\* ant is None
Verified(op, args, sw) ==
    CASE op = "phase_switch_disable" -> ~ IsOn(sw.phase_switch)
      [] op = "phase_switch_enable" -> IsOn(sw.phase_switch)
      [] op \in {"antenna_enable"} \cup DisableOps ->
           args.ant # "None" \/ (~ IsOn(sw.noise_diode) /\ ~ IsOn(sw.load))
      [] op = "noise_diode_enable" ->
           args.ant # "None" \/ (IsOn(sw.noise_diode) /\ ~ IsOn(sw.load))
      [] op = "load_enable" ->
           args.ant # "None" \/ (IsOn(sw.load) /\ ~ IsOn(sw.noise_diode))

\* the last step of a switch operation whose command completed
verify(c) ==
    /\ callers[c].pc = "verify"
    /\ callers' = [callers EXCEPT ![c] =
          [callers[c] EXCEPT
             !.pc = "done",
             !.ret = OpReturn(callers[c].op,
                        RetBool(Verified(callers[c].op, callers[c].args, switches)))]]
    /\ UNCHANGED <<clock, switches, cm, command, cmd_status, is_taking_data, trig_time,
                   script_key, exs, hist>>

(***************************************************************************)
(* redis_cm.read_cminfo_from_redis.                                        *)
(***************************************************************************)
\* a Python str, as the sequence of its characters
Str(chars) == [type |-> "str", chars |-> chars]

\* values passed as return_as: strings, and one value that is not a string
ReturnAsValues ==
    {Str(<<"d", "i", "c", "t">>),
     Str(<<"D", "i", "c", "t">>),
     Str(<<"d", "i", "c", "t", "i", "o", "n", "a", "r", "y">>),
     Str(<<"n", "a", "m", "e", "s", "p", "a", "c", "e">>),
     Str(<<"N", "a", "m", "e", "S", "p", "a", "c", "e">>),
     Str(<<"d", "i", "c", "t", "s">>),
     Str(<<"l", "i", "s", "t">>),
     Str(<<>>),
     [type |-> "int", chars |-> <<>>]}

\* the accepted values: ["dict", "dictionary", "namespace"]
ReturnAsAccepted ==
    {<<"d", "i", "c", "t">>,
     <<"d", "i", "c", "t", "i", "o", "n", "a", "r", "y">>,
     <<"n", "a", "m", "e", "s", "p", "a", "c", "e">>}

\* str.lower, over the upper-case letters of ReturnAsValues
UpperToLower == [D |-> "d", N |-> "n", S |-> "s"]
Lower(chars) ==
    [k \in DOMAIN chars |->
       IF chars[k] \in DOMAIN UpperToLower THEN UpperToLower[chars[k]] ELSE chars[k]]

\* str.startswith
StartsWith(chars, prefix) ==
    /\ Len(chars) >= Len(prefix)
    /\ SubSeq(chars, 1, Len(prefix)) = prefix

\* The hash corr:map as the function reads it: populated or missing, and the
\* JSON value of its field cofa_xyz, a list or a dict with keys X, Y, Z
CorrMaps == [populated : BOOLEAN, cofa_xyz : {"list", "dict"}]

\* no call of read_cminfo_from_redis
NoCminfoCall ==
    [pc |-> "none", return_as |-> Str(<<>>),
     corr_map |-> [populated |-> FALSE, cofa_xyz |-> "list"],
     reads |-> FALSE, outcome |-> [kind |-> "none", value |-> "none"]]

\* read_cminfo_from_redis is entered with return_as, on a store holding corr_map
CminfoCall(return_as, corr_map) ==
    [NoCminfoCall EXCEPT !.pc = "check_type", !.return_as = return_as,
                         !.corr_map = corr_map]

CminfoRaise(exc) == [kind |-> "raise", value |-> exc]
CminfoReturn(value) == [kind |-> "return", value |-> value]

\* the call ends with `outcome`
CminfoEnd(outcome) ==
    /\ cm' = [cm EXCEPT !.pc = "done", !.outcome = outcome]
    /\ UNCHANGED <<clock, switches, command, cmd_status, is_taking_data, trig_time,
                   script_key, exs, callers, hist>>

\* the call goes on at `pc`
CminfoGoto(pc, reads) ==
    /\ cm' = [cm EXCEPT !.pc = pc, !.reads = reads]
    /\ UNCHANGED <<clock, switches, command, cmd_status, is_taking_data, trig_time,
                   script_key, exs, callers, hist>>

\* if not isinstance(return_as, string_type): raise ValueError(...)
cminfo_check_type ==
    /\ cm.pc = "check_type"
    /\ IF cm.return_as.type # "str"
       THEN CminfoEnd(CminfoRaise("ValueError"))
       ELSE CminfoGoto("check_value", cm.reads)

\* if return_as.lower() not in [...]: return ValueError(...)
cminfo_check_value ==
    /\ cm.pc = "check_value"
    /\ IF Lower(cm.return_as.chars) \notin ReturnAsAccepted
       THEN CminfoEnd(CminfoReturn("ValueError"))
       ELSE CminfoGoto("read", cm.reads)

\* The reads of corr:map.  json.loads(None) of a missing field raises
\* TypeError; cofa_xyz[0] raises KeyError where cofa_xyz is a dict
cminfo_read ==
    /\ cm.pc = "read"
    /\ IF ~ cm.corr_map.populated
       THEN cm' = [cm EXCEPT !.pc = "done", !.reads = TRUE,
                             !.outcome = CminfoRaise("TypeError")]
       ELSE IF cm.corr_map.cofa_xyz = "dict"
       THEN cm' = [cm EXCEPT !.pc = "done", !.reads = TRUE,
                             !.outcome = CminfoRaise("KeyError")]
       ELSE cm' = [cm EXCEPT !.pc = "build", !.reads = TRUE]
    /\ UNCHANGED <<clock, switches, command, cmd_status, is_taking_data, trig_time,
                   script_key, exs, callers, hist>>

\* `if not return_as.lower().startswith('dict'): return cminfo`, and else the
\* Namespace is built; cofa_xyz['X'] raises TypeError where cofa_xyz is a list
cminfo_build ==
    /\ cm.pc = "build"
    /\ IF ~ StartsWith(Lower(cm.return_as.chars), <<"d", "i", "c", "t">>)
       THEN CminfoEnd(CminfoReturn("dict"))
       ELSE IF cm.corr_map.cofa_xyz = "list"
       THEN CminfoEnd(CminfoRaise("TypeError"))
       ELSE CminfoEnd(CminfoReturn("Namespace"))

(***************************************************************************)
(* The system.                                                             *)
(***************************************************************************)
\* an envelope left in corr:command by an earlier session
OldMessage == Message("stop", NoKwargs, 0)

\* HeraCorrHandler.__init__, with the place of the main loop ("off": the
\* instance is never started)
NewExecutor(pc, testmode) ==
    [pc |-> pc, last_command_time |-> NoTime, d |-> Absent, testmode |-> testmode]

\* a hash corr:status_<switch>, and the three of them
SwitchHash(state) == [state |-> state, time |-> FloatToStr(0)]
SwitchStates ==
    [phase_switch : {SwitchHash("on"), SwitchHash("off")},
     noise_diode : {SwitchHash("on"), SwitchHash("off")},
     load : {SwitchHash("on"), SwitchHash("off")}]
SwitchesOff ==
    [phase_switch |-> SwitchHash("off"), noise_diode |-> SwitchHash("off"),
     load |-> SwitchHash("off")]

Init ==
    /\ clock = 0
    /\ switches = SwitchesOff
    /\ cm = NoCminfoCall
    /\ command \in {Absent, OldMessage}
    /\ cmd_status = EmptyHash
    /\ is_taking_data = Absent
    /\ trig_time \in {NoTime} \cup TrigTimes
    /\ script_key = Absent
    /\ \E testmode \in BOOLEAN :
         exs = [i \in Executors |-> NewExecutor(IF i = 1 THEN "sleep" ELSE "off", testmode)]
    /\ callers = [c \in Callers |-> IdleCaller]
    /\ hist = [ncalls |-> 0, nrec |-> 0, dispatched |-> {}, failed |-> FALSE,
               written |-> FALSE, reread |-> FALSE, stale_block |-> FALSE,
               owner |-> Absent, dispatched_by |-> {}]

\* the Executor and the Callers of the commands it handles or drops
Next ==
    \/ Tick
    \/ main_loop_set_key(1)
    \/ process_command(1)
    \/ create_status_hdel(1)
    \/ create_status_hmset(1)
    \/ stop_capture(1)
    \/ start_capture_ctl(1)
    \/ start_capture_take_data(1)
    \/ cmd_handler_record_finish(1)
    \/ xtor_down(1)
    \/ xtor_up(1)
    \/ executor_restart(1)
    \/ \E c \in Callers : begin_take_data(c)
    \/ \E c \in Callers : begin_unguarded(c)
    \/ \E c \in Callers : send_message(c)
    \/ \E c \in Callers : get_response(c)

Spec == Init /\ [][Next]_vars

\* the Callers and the data catcher, with no Executor running
NextGuard ==
    \/ Tick
    \/ catcher_set_is_taking_data
    \/ \E c \in Callers : begin_guarded(c)
    \/ \E c \in Callers : begin_take_data(c)
    \/ \E c \in Callers : begin_unguarded(c)
    \/ \E c \in Callers : send_message(c)
    \/ \E c \in Callers : get_response(c)

SpecGuard == Init /\ [][NextGuard]_vars

\* one Caller and the Executor over a clock one tick longer, so that the
\* three commands of restart can each be accepted
LongTime == MaxTime + 1

NextRestart ==
    \/ TickTo(LongTime)
    \/ main_loop_set_key(1)
    \/ process_command(1)
    \/ create_status_hdel(1)
    \/ create_status_hmset(1)
    \/ stop_capture(1)
    \/ start_capture_ctl(1)
    \/ start_capture_take_data(1)
    \/ cmd_handler_record_finish(1)
    \/ xtor_down(1)
    \/ xtor_up(1)
    \/ executor_restart(1)
    \/ begin_take_data(1)
    \/ begin_unguarded(1)
    \/ send_message(1)
    \/ get_response(1)

SpecRestart == Init /\ [][NextRestart]_vars

\* the operations whose wait and last step are started from a drawn status
PollOps == GuardedOps \cup DisableOps \cup {"stop_taking_data"}

\* values of the `ant` argument of the rf switch operations
Ants == {"None", "0"}

\* the keyword arguments operation op may have published
PollArgs(op) ==
    IF OpCommand(op) = "rf_switch"
    THEN {[OpArgs(op, 0) EXCEPT !.ant = ant] : ant \in Ants}
    ELSE {OpArgs(op, 0)}

\* a string that is not a JSON text
NotJson == [raw |-> "{"]

\* Contents of corr:cmd_status a Caller may read while it waits on the
\* envelope (cmd, args, time 0): the records of this and of another envelope
\* in every status, whole, with a field missing, or with args that are no
\* JSON text; and the empty hash
StatusRecords(cmd, args) ==
    LET whole == {[command |-> command_name,
                   time |-> FloatToStr(command_time),
                   args |-> args_text,
                   status |-> status,
                   update_time |-> FloatToStr(0)] :
                     command_name \in {cmd, "other"},
                     command_time \in {0, 1},
                     args_text \in {JsonDumps(args), NotJson},
                     status \in {"running", "errored", "complete"}}
        Without(r, field) == [f \in DOMAIN r \ {field} |-> r[f]]
    IN  whole \cup {EmptyHash}
          \cup {Without(r, field) : r \in whole,
                                    field \in {"command", "time", "args", "status"}}

\* Caller 1 has published the first command of op and entered _get_response
WaitingCaller(op, args) ==
    [IdleCaller EXCEPT !.pc = "get_response", !.op = op,
                       !.cmd = OpCommand(op), !.args = args,
                       !.sent = Message(OpCommand(op), args, 0),
                       !.wait_time = 0]

\* a Caller waiting on a status slot that any writer may have left
InitPoll ==
    /\ clock = 0
    /\ switches \in SwitchStates
    /\ cm = NoCminfoCall
    /\ is_taking_data = Absent
    /\ trig_time = NoTime
    /\ script_key = Absent
    /\ exs = [i \in Executors |-> NewExecutor("off", FALSE)]
    /\ \E op \in PollOps : \E args \in PollArgs(op) :
         /\ callers = [c \in Callers |->
                         IF c = 1 THEN WaitingCaller(op, args) ELSE IdleCaller]
         /\ command = Message(OpCommand(op), args, 0)
         /\ cmd_status \in StatusRecords(OpCommand(op), args)
    /\ hist = [ncalls |-> 1, nrec |-> 0, dispatched |-> {}, failed |-> FALSE,
               written |-> FALSE, reread |-> FALSE, stale_block |-> FALSE,
               owner |-> Absent, dispatched_by |-> {}]

NextPoll ==
    \/ Tick
    \/ \E c \in Callers : get_response(c)
    \/ \E c \in Callers : verify(c)

SpecPoll == InitPoll /\ [][NextPoll]_vars

\* The same with what the code's scheduling gives: time passes, the loop of
\* _get_response makes its next pass after time.sleep(1), and an operation
\* whose wait returned goes on to its last step
SpecPollFair ==
    /\ InitPoll
    /\ [][NextPoll]_vars
    /\ WF_vars(Tick)
    /\ \A c \in Callers : WF_vars(get_response(c)) /\ WF_vars(verify(c))

\* a call of read_cminfo_from_redis on a store holding some corr:map
InitCminfo ==
    /\ clock = 0
    /\ switches = SwitchesOff
    /\ \E return_as \in ReturnAsValues, corr_map \in CorrMaps :
         cm = CminfoCall(return_as, corr_map)
    /\ command = Absent
    /\ cmd_status = EmptyHash
    /\ is_taking_data = Absent
    /\ trig_time = NoTime
    /\ script_key = Absent
    /\ exs = [i \in Executors |-> NewExecutor("off", FALSE)]
    /\ callers = [c \in Callers |-> IdleCaller]
    /\ hist = [ncalls |-> 0, nrec |-> 0, dispatched |-> {}, failed |-> FALSE,
               written |-> FALSE, reread |-> FALSE, stale_block |-> FALSE,
               owner |-> Absent, dispatched_by |-> {}]

NextCminfo ==
    \/ cminfo_check_type
    \/ cminfo_check_value
    \/ cminfo_read
    \/ cminfo_build

SpecCminfo == InitCminfo /\ [][NextCminfo]_vars

\* a fresh store on which a second Executor instance may have been started
\* too, every instance in test mode
InitTwo ==
    /\ clock = 0
    /\ switches = SwitchesOff
    /\ cm = NoCminfoCall
    /\ command = Absent
    /\ cmd_status = EmptyHash
    /\ is_taking_data = Absent
    /\ trig_time = NoTime
    /\ script_key = Absent
    /\ \E second \in {"off", "sleep"} :
         exs = [i \in Executors |-> NewExecutor(IF i = 1 THEN "sleep" ELSE second, TRUE)]
    /\ callers = [c \in Callers |-> IdleCaller]
    /\ hist = [ncalls |-> 0, nrec |-> 0, dispatched |-> {}, failed |-> FALSE,
               written |-> FALSE, reread |-> FALSE, stale_block |-> FALSE,
               owner |-> Absent, dispatched_by |-> {}]

\* the Executor instances in test mode, where _cmd_handler only writes the
\* running record, and the Callers of stop, hard_stop and start
NextTwo ==
    \/ Tick
    \/ \E i \in Executors : main_loop_set_key(i)
    \/ \E i \in Executors : process_command(i)
    \/ \E i \in Executors : create_status_hdel(i)
    \/ \E i \in Executors : create_status_hmset(i)
    \/ \E c \in Callers : begin_unguarded(c)
    \/ \E c \in Callers : send_message(c)
    \/ \E c \in Callers : get_response(c)

SpecTwo == InitTwo /\ [][NextTwo]_vars

(***************************************************************************)
(* Properties.                                                             *)
(***************************************************************************)
\* in this step Caller c's _get_response returns
Returns(c) ==
    /\ callers[c].pc = "get_response"
    /\ callers'[c].pc # "get_response"

\* the Executor is between commands: the handler of ex.d, if any, has returned
HandlerReturned == ex.pc \in {"sleep", "process_command"} /\ ex.d # Absent

\* the status hash holds a record of envelope d
StatusOf(d) ==
    /\ cmd_status # EmptyHash
    /\ cmd_status.command = d.command
    /\ StrToFloat(cmd_status.time) = d.time

\* C1: a Caller's _get_response returns a result (the arguments of a complete
\* record, or the failure of an errored one) only from a status record whose
\* command and time equal those of the envelope it sent, and that record was
\* written by the Executor while it handled that very envelope.
C1_ResultOnlyFromOwnStatus ==
    [][\A c \in Callers :
         (Returns(c) /\ callers'[c].resp \in {"complete", "errored"}) =>
            /\ StatusOf(JsonLoads(callers[c].sent))
            /\ hist.owner = Identity(JsonLoads(callers[c].sent))]_vars

\* C1 witness: a Caller has returned the complete status of its envelope while
\* another Caller still waits on a different envelope.
C1_Witness ==
    \E c, k \in Callers :
       /\ callers[c].pc = "done" /\ callers[c].resp = "complete"
       /\ StatusOf(JsonLoads(callers[c].sent))
       /\ callers[k].pc = "get_response"
       /\ Identity(JsonLoads(callers[k].sent)) # Identity(JsonLoads(callers[c].sent))

\* C2: process_command calls _cmd_handler only for an envelope whose time is
\* strictly greater than last_command_time, never for an envelope this
\* Executor instance dispatched before, it ignores an envelope whose time is
\* equal or smaller, and last_command_time never decreases within an instance.
C2_DedupByIssueTime ==
    [][(/\ ex.pc = "process_command" /\ ex' # ex
        /\ command # Absent /\ ex.last_command_time # NoTime) =>
         LET d == JsonLoads(command)
         IN  /\ hist'.dispatched # hist.dispatched =>
                  /\ d.time > ex.last_command_time
                  /\ Identity(d) \notin hist.dispatched
                  /\ hist'.dispatched = hist.dispatched \cup {Identity(d)}
             /\ d.time <= ex.last_command_time =>
                  /\ ex'.pc = "sleep"
                  /\ ex'.last_command_time = ex.last_command_time
                  /\ hist'.dispatched = hist.dispatched
                  /\ cmd_status' = cmd_status
             /\ ex'.last_command_time >= ex.last_command_time]_vars

\* C2 witness: the Executor has read again an envelope it had dispatched, and
\* went back to sleep.
C2_Witness ==
    /\ hist.reread
    /\ ex.pc = "sleep"
    /\ command # Absent
    /\ Identity(JsonLoads(command)) \in hist.dispatched

\* C3: once complete or errored has been written for a command instance, no
\* later write changes the phase of that instance.
C3_TerminalPhaseIsFinal ==
    [][(/\ cmd_status # EmptyHash
        /\ cmd_status.status \in {"complete", "errored"}
        /\ cmd_status' # EmptyHash
        /\ cmd_status'.command = cmd_status.command
        /\ cmd_status'.time = cmd_status.time)
       => cmd_status'.status = cmd_status.status]_vars

\* the command names of the action dispatch table
DispatchTable == {"record", "stop", "hard_stop", "start",
                  "phase_switch", "rf_switch", "snap_eq", "pam_atten"}

\* C4: when the Executor has accepted a command of the dispatch table and is
\* past _cmd_handler's first write, a record with phase running and that
\* command's name, time and arguments was written for it.
C4_RunningWrittenOnAcceptance ==
    (/\ ex.d # Absent
     /\ ex.d.command \in DispatchTable
     /\ ex.pc \notin {"create_status_hdel", "create_status_hmset", "crashed"})
    => hist.written

\* C5: after the handler of an accepted command has returned, the status
\* record of that command is complete or errored, not running.
C5_TerminalStatusAfterHandler ==
    (HandlerReturned /\ ex.d.command \in HandledCommands) =>
       /\ StatusOf(ex.d)
       /\ cmd_status.status \in {"complete", "errored"}

\* C6: when the external action of an accepted command failed, the status the
\* Executor leaves for that command is errored.
C6_FailedActionEndsErrored ==
    (HandlerReturned /\ hist.failed) =>
       /\ StatusOf(ex.d)
       /\ cmd_status.status = "errored"

\* C7: no failure of an action ends the Executor's main loop.
C7_MainLoopNeverDies == ex.pc # "crashed"

\* in this step Caller c is called with a guarded operation
GuardedCall(c) ==
    /\ hist'.ncalls = hist.ncalls + 1
    /\ callers[c].pc \in {"idle", "done"}
    /\ callers'[c].pc \in {"send", "done"}
    /\ callers'[c].op \in GuardedOps
    /\ callers' # callers => callers'[c] # callers[c]

\* the stored recording flag is active
RecordingActive == is_taking_data # Absent /\ is_taking_data.state = "True"

\* C8: a guarded operation called while the recording flag is active and
\* danger_mode is off returns False, and the call writes neither the command
\* slot nor the status slot.
C8_BlockedCallPublishesNothing ==
    [][\A c \in Callers :
         (GuardedCall(c) /\ RecordingActive /\ ~ callers'[c].danger_mode) =>
            /\ callers'[c].pc = "done"
            /\ callers'[c].ret = RetBool(FALSE)
            /\ callers'[c].sent = Absent
            /\ command' = command
            /\ cmd_status' = cmd_status]_vars

\* C8 witness: a guarded operation (load_enable) was called while recording
\* with danger_mode off, returned False and published nothing.
C8_Witness ==
    /\ RecordingActive
    /\ \E c \in Callers :
         /\ callers[c].pc = "done"
         /\ callers[c].op = "load_enable"
         /\ ~ callers[c].danger_mode
         /\ callers[c].ret = RetBool(FALSE)
         /\ callers[c].sent = Absent

\* in this step Caller c publishes an envelope
Publishes(c) ==
    /\ callers'[c].sent # callers[c].sent
    /\ command' = callers'[c].sent

\* C9: set_pam_atten, set_eq_coeffs and restart write no command to the command
\* slot while the recording flag is active and danger_mode is off.
C9_UnlistedOpsAreGuarded ==
    [][\A c \in Callers :
         (/\ Publishes(c)
          /\ callers'[c].op \in {"set_pam_atten", "set_eq_coeffs", "restart"}
          /\ ~ callers'[c].danger_mode)
         => ~ RecordingActive]_vars

\* C10: _require_not_recording returns False exactly when the stored flag is
\* active and danger_mode is off, whatever the age of the record.
C10_GuardDecision ==
    [][\A c \in Callers :
         GuardedCall(c) =>
            ((callers'[c].pc = "done" /\ callers'[c].ret = RetBool(FALSE))
               <=> (RecordingActive /\ ~ callers'[c].danger_mode))]_vars

\* C10 witness: a guarded call was blocked by an active record that was older
\* than the call, and another passed the active record with danger_mode on.
C10_Witness ==
    /\ RecordingActive
    /\ hist.stale_block
    /\ \E c, k \in Callers :
         /\ callers[c].pc = "done" /\ callers[c].op \in GuardedOps
         /\ ~ callers[c].danger_mode /\ callers[c].ret = RetBool(FALSE)
         /\ callers[k].op \in GuardedOps /\ callers[k].danger_mode
         /\ callers[k].pc = "get_response"

\* the envelope Caller c waits on, and the timeout of its wait
SentBy(c) == JsonLoads(callers[c].sent)
WaitTimeout(c) == TimeoutOf(callers[c].op, callers[c].cmd)

\* Caller c is in the polling loop of _get_response
Polling(c) == callers[c].pc = "get_response"

\* C11: a Caller given a timeout is not left polling by a pass of its loop
\* that was made after the timeout had elapsed and read the status slot empty:
\* such a pass ends the wait with a timeout.
C11_EmptySlotTimesOut ==
    \A c \in Callers : Polling(c) => callers[c].late_saw # "empty"

\* C12: a Caller given a timeout is not left polling by a pass of its loop
\* that was made after the timeout had elapsed and read a record of another
\* (name, issue_time): such a pass ends the wait with a timeout.
C12_MismatchTimesOut ==
    \A c \in Callers : Polling(c) => callers[c].late_saw # "other"

\* C13: while the record of its own envelope is running, a Caller given a
\* timeout returns only at a pass made after the timeout has elapsed, returns a
\* timeout then, and no pass made after the timeout has elapsed leaves it polling.
C13_RunningTimesOutAtDeadline ==
    [][\A c \in Callers :
         (/\ Polling(c)
          /\ WaitTimeout(c) # NoTime
          /\ Seen(cmd_status, SentBy(c)) = "running"
          /\ callers'[c] # callers[c])
         => /\ Returns(c) <=> Elapsed(callers[c].wait_time, clock) > WaitTimeout(c)
            /\ Returns(c) => callers'[c].resp = "timeout"
            /\ callers'[c].late_saw # "running"]_vars

\* C13 witness: stop_taking_data has returned False by timeout while the
\* record of its envelope is still running.
C13_Witness ==
    \E c \in Callers :
       /\ callers[c].pc = "done" /\ callers[c].op = "stop_taking_data"
       /\ callers[c].resp = "timeout" /\ callers[c].ret = RetBool(FALSE)
       /\ StatusOf(SentBy(c)) /\ cmd_status.status = "running"

\* C14: an operation that ended by timeout and an operation that ended on an
\* errored status do not report the same result to their invokers.
C14_TimeoutDistinctFromErrored ==
    \A c, k \in Callers :
       (/\ callers[c].pc = "done" /\ callers[c].resp = "timeout"
        /\ callers[k].pc = "done" /\ callers[k].resp = "errored")
       => callers[c].ret # callers[k].ret

\* the operations whose result is whether _get_response returned a response
PlainOps == {"stop_taking_data", "_stop", "_start", "set_eq_coeffs", "set_pam_atten"}

C16_RestartDoesNotReplay ==
    [][/\ (/\ ex.pc = "process_command" /\ ex' # ex
           /\ ex.last_command_time = NoTime /\ command # Absent)
          => /\ ex'.pc = "sleep"
             /\ ex'.d = Absent
             /\ ex'.last_command_time = JsonLoads(command).time
             /\ hist'.dispatched = hist.dispatched
             /\ cmd_status' = cmd_status
       /\ (ex.d = Absent /\ ex'.d = Absent) => cmd_status' = cmd_status
       /\ (ex.d = Absent /\ ex'.d # Absent)
          => /\ ex.last_command_time # NoTime
             /\ ex'.d.time > ex.last_command_time]_vars

\* C16 witness: the Executor died while the status of an envelope was running,
\* was started again, read that same envelope from the command slot, and is
\* back asleep with the status still running for it.
C16_Witness ==
    /\ ex.pc = "sleep"
    /\ ex.d = Absent
    /\ command # Absent
    /\ ex.last_command_time = JsonLoads(command).time
    /\ StatusOf(JsonLoads(command))
    /\ cmd_status.status = "running"

\* C17: the status slot is replaced atomically on acceptance: no Caller's
\* poll reads the slot empty after a status record has been written to it.
C17_AtomicReplace ==
    \A c \in Callers : ~ callers[c].saw_cleared

\* C18: a pass of the polling loop of _get_response, whether it goes on,
\* returns a result, fails or times out, changes no key of the store and
\* nothing of the Executor; the status slot changes only in steps of the
\* Executor.
C18_PollingIsReadOnly ==
    [][/\ \A c \in Callers :
            (Polling(c) /\ callers'[c] # callers[c]) =>
               /\ command' = command
               /\ cmd_status' = cmd_status
               /\ is_taking_data' = is_taking_data
               /\ trig_time' = trig_time
               /\ script_key' = script_key
               /\ ex' = ex
       /\ cmd_status' # cmd_status => ex' # ex]_vars

\* C18 witness: a Caller gave up its wait by timeout, and the Executor has
\* since written complete for that Caller's envelope.
C18_Witness ==
    \E c \in Callers :
       /\ callers[c].pc = "done" /\ callers[c].resp = "timeout"
       /\ StatusOf(SentBy(c)) /\ cmd_status.status = "complete"
       /\ hist.owner = Identity(SentBy(c))

\* the Executor is inside _cmd_handler
InHandler == ex.pc \notin {"sleep", "process_command", "crashed"}

\* C19: the Executor handles one command at a time: every status record it
\* writes is for the envelope it dispatched last, and between the dispatch of
\* an envelope and the return of its handler it takes up no other envelope,
\* whatever is published meanwhile.
C19_OneCommandAtATime ==
    [][/\ (cmd_status' # cmd_status /\ cmd_status' # EmptyHash)
          => /\ ex.d # Absent
             /\ ex'.d = ex.d
             /\ cmd_status'.command = ex.d.command
             /\ StrToFloat(cmd_status'.time) = ex.d.time
       /\ InHandler
          => /\ ex'.d = ex.d
             /\ ex'.last_command_time = ex.last_command_time
             /\ hist'.dispatched = hist.dispatched]_vars

\* C19 witness: the Executor is inside the handler of one envelope, with that
\* envelope's status running, while the command slot already holds a newer one.
C19_Witness ==
    /\ InHandler
    /\ ex.pc \notin {"create_status_hdel", "create_status_hmset"}
    /\ StatusOf(ex.d) /\ cmd_status.status = "running"
    /\ command # Absent
    /\ JsonLoads(command).time > ex.d.time

\* the number of Executor instances started on the store
Started == {i \in Executors : exs[i].pc # "off"}

\* in this step instance i hands the envelope of the command slot to _cmd_handler
Dispatches(i) ==
    /\ exs[i].pc = "process_command"
    /\ exs'[i].d # exs[i].d \/ exs'[i].pc = "create_status_hdel"

\* C20: an Executor instance dispatches no envelope it has dispatched before,
\* so with exactly one instance on the store every envelope is dispatched at
\* most once; an envelope is dispatched a second time only by another instance.
C20_AtMostOncePerInstance ==
    [][\A i \in Executors :
         Dispatches(i) =>
            LET id == Identity(JsonLoads(command))
            IN  /\ <<i, id>> \notin hist.dispatched_by
                /\ hist'.dispatched_by = hist.dispatched_by \cup {<<i, id>>}
                /\ Cardinality(Started) = 1
                      => \A k \in Executors : <<k, id>> \notin hist.dispatched_by]_vars

\* C20 witness: two instances run on the same store and each has dispatched
\* the same envelope, having kept a last_command_time of its own.
C20_Witness ==
    /\ Cardinality(Started) = 2
    /\ \E m, n \in hist.dispatched_by : m[2] = n[2] /\ m[1] # n[1]
    /\ exs[1].last_command_time = exs[2].last_command_time
    /\ exs[1].d = exs[2].d /\ exs[1].d # Absent

\* C21: every status record with status errored that the Executor writes
\* carries an err field in its arguments, so a Caller that reads a matching
\* errored record finds the cause in it.
C21_ErroredCarriesErr ==
    (cmd_status # EmptyHash /\ cmd_status.status = "errored")
       => "err" \in DOMAIN JsonLoads(cmd_status.args)

\* no Executor instance runs its main loop
NoListener == \A i \in Executors : exs[i].pc \in {"off", "crashed"}

\* C22: a Caller that publishes a command while no Executor is listening is
\* told so by the publish step: its operation returns False and does not enter
\* the polling loop of _get_response.
C22_NoListenerReported ==
    [][\A c \in Callers :
         (/\ NoListener
          /\ callers'[c] # callers[c]
          /\ command' # command)
         => /\ callers'[c].pc = "done"
            /\ callers'[c].ret = RetBool(FALSE)]_vars

\* C25: take_data returns a start time (success) only if the start time the
\* Executor accepted differs from the requested one by no more than
\* TIME_DIFF_MAX ms, in either direction.
C25_StartTimeWithinTolerance ==
    \A c \in Callers :
       (/\ callers[c].pc = "done"
        /\ callers[c].op = "take_data"
        /\ callers[c].ret.kind = "number")
       => LET time_diff == callers[c].args.starttime - callers[c].ret.val
          IN  /\ callers[c].resp = "complete"
              /\ time_diff <= TIME_DIFF_MAX
              /\ - time_diff <= TIME_DIFF_MAX

\* the status hash holds a record that is not well formed: a field is
\* missing, or its arguments are no JSON text
Malformed(command_status) ==
    /\ command_status # EmptyHash
    /\ \/ ~ ({"command", "time", "args", "status"} \subseteq DOMAIN command_status)
       \/ ~ Decodes(command_status.args)

\* C23: while the status slot holds a malformed record, a Caller in the
\* polling loop of _get_response stays in it: the record is ignored and no
\* exception leaves _get_response.
C23_MalformedIgnored ==
    [][\A c \in Callers :
         (Polling(c) /\ Malformed(cmd_status)) => callers'[c].pc = "get_response"]_vars

\* the state a switch operation is to bring about, as the corr:status_* hashes
\* show it
Desired(op, sw) ==
    CASE op = "phase_switch_disable" -> sw.phase_switch.state = "off"
      [] op = "phase_switch_enable" -> sw.phase_switch.state = "on"
      [] op = "antenna_enable" ->
           sw.noise_diode.state = "off" /\ sw.load.state = "off"
      [] op = "noise_diode_enable" ->
           sw.noise_diode.state = "on" /\ sw.load.state = "off"
      [] op = "load_enable" ->
           sw.load.state = "on" /\ sw.noise_diode.state = "off"

\* C24: a switch operation, for one antenna or for all, returns True exactly
\* when its command's status became complete and the switch state read from
\* the store is the desired one; it returns False otherwise.
C24_SuccessOnlyIfStateReached ==
    \A c \in Callers :
       (callers[c].pc = "done" /\ callers[c].op \in GuardedOps)
       => callers[c].ret =
            RetBool(callers[c].resp = "complete" /\ Desired(callers[c].op, switches))

\* C28: noise_diode_disable and load_disable return a boolean, False when
\* antenna_enable was blocked, failed or timed out.
C28_DisableReturnsBoolean ==
    \A c \in Callers :
       (callers[c].pc = "done" /\ callers[c].op \in DisableOps)
       => /\ callers[c].ret.kind = "bool"
          /\ callers[c].resp # "complete" => callers[c].ret = RetBool(FALSE)

\* C30: on a populated corr:map, read_cminfo_from_redis returns a dict when
\* return_as is dict or dictionary and a Namespace when it is namespace; for
\* any other return_as it raises ValueError and has not read the store.
C30_ReturnAsDecidesResult ==
    (cm.pc = "done" /\ cm.corr_map.populated)
    => LET known == cm.return_as.type = "str"
           lower == Lower(cm.return_as.chars)
       IN  IF known /\ lower \in {<<"d", "i", "c", "t">>,
                                  <<"d", "i", "c", "t", "i", "o", "n", "a", "r", "y">>}
           THEN cm.outcome = CminfoReturn("dict")
           ELSE IF known /\ lower = <<"n", "a", "m", "e", "s", "p", "a", "c", "e">>
           THEN cm.outcome = CminfoReturn("Namespace")
           ELSE cm.outcome = CminfoRaise("ValueError") /\ ~ cm.reads

\* timeouts a wait may be given
Timeouts == {STOP_TIMEOUT \div 2, STOP_TIMEOUT, TAKE_DATA_TIMEOUT}

C27_HeartbeatBeforePoll ==
    [][\A i \in Executors :
         /\ (exs'[i].pc = "process_command" /\ exs[i].pc # "process_command")
            => /\ exs[i].pc = "sleep"
               /\ script_key' = [value |-> "alive", ttl |-> SCRIPT_KEY_EX]
         /\ Dispatches(i) => exs[i].pc = "process_command"]_vars

\* C27 witness: after a command was handled and time has passed, the main
\* loop is about to read the command slot again with its key freshly written.
C27_Witness ==
    /\ ex.pc = "process_command"
    /\ HandlerReturned
    /\ clock > 0
    /\ script_key = [value |-> "alive", ttl |-> SCRIPT_KEY_EX]

\* C29: restart publishes stop, hard_stop and start in that order, each of the
\* last two only after the wait on the one before has returned, hard_stop
\* whatever the wait on stop returned; and it returns True exactly when the
\* waits on hard_stop and on start each returned from a matching complete
\* record.
C29_RestartOrder ==
    [][\A c \in Callers :
         /\ (callers'[c].op = "restart" /\ callers'[c].sent # callers[c].sent)
            => /\ command' = callers'[c].sent
               /\ JsonLoads(command').command = callers'[c].cmd
               /\ callers'[c].pc = "get_response"
               /\ \/ /\ callers[c].pc \in {"idle", "done"}
                     /\ callers'[c].cmd = "stop"
                  \/ /\ callers[c].pc = "send"
                     /\ callers[c].op = "restart"
                     /\ callers[c].cmd = callers'[c].cmd
                     /\ callers'[c].cmd \in {"hard_stop", "start"}
         /\ (callers'[c].op = "restart" /\ callers'[c].pc = "send"
                /\ callers[c].pc # "send")
            => Returns(c)
         /\ (Returns(c) /\ callers[c].op = "restart")
            => /\ callers'[c].resp = "complete"
                    => StatusOf(SentBy(c)) /\ cmd_status.status = "complete"
               /\ CASE callers[c].cmd = "stop" ->
                         /\ callers'[c].pc = "send"
                         /\ callers'[c].cmd = "hard_stop"
                    [] callers[c].cmd = "hard_stop" ->
                         /\ callers'[c].pc = "send"
                         /\ callers'[c].cmd = "start"
                         /\ callers'[c].stop_stat = (callers'[c].resp = "complete")
                    [] callers[c].cmd = "start" ->
                         /\ callers'[c].pc = "done"
                         /\ callers'[c].ret =
                              RetBool(callers[c].stop_stat
                                      /\ callers'[c].resp = "complete")]_vars

\* C29 witness: a restart has returned True, its three commands each accepted
\* and completed by the Executor.
C29_Witness ==
    \E c \in Callers :
       /\ callers[c].op = "restart"
       /\ callers[c].pc = "done"
       /\ callers[c].ret = RetBool(TRUE)
       /\ clock = LongTime

\* C31: an Executor that finds in the command slot an envelope newer than
\* every envelope it has read before accepts it, the first envelope it reads
\* after a start on an empty command slot included.
C31_NewerCommandAccepted ==
    [][\A i \in Executors :
         (/\ exs[i].pc = "process_command"
          /\ exs'[i] # exs[i]
          /\ command # Absent
          /\ \/ exs[i].last_command_time = NoTime
             \/ JsonLoads(command).time > exs[i].last_command_time)
         => /\ exs'[i].pc = "create_status_hdel"
            /\ exs'[i].d = JsonLoads(command)]_vars

\* the operations that publish one command and wait for it
OneCommandOps == {"take_data", "stop_taking_data", "_start"}

\* C32: when the only call made is an operation of one command, the Executor
\* (not in test mode) accepted its envelope, the action did not fail, the
\* handler has returned and (for take_data) the start time accepted is the one
\* requested, then the operation has not returned failure.
C32_AcceptedCommandSucceeds ==
    \A c \in Callers :
       (/\ callers[c].pc = "done"
        /\ callers[c].op \in OneCommandOps
        /\ hist.ncalls = 1
        /\ callers[c].sent # Absent
        /\ command = callers[c].sent
        /\ ~ ex.testmode
        /\ HandlerReturned
        /\ ex.d = SentBy(c)
        /\ ~ hist.failed
        /\ callers[c].op = "take_data" => trig_time * 1000 = callers[c].args.starttime)
       => callers[c].ret # RetBool(FALSE)

\* the Executor waits for a sub-program or for the X-engines
InAction == ex.pc \in {"stop_capture", "ctl_start", "take_data", "xtor_down", "xtor_up"}

\* C33: the status of the command the Executor is handling is not complete
\* while its action is still in progress or its result is still to be written.
C33_CompleteOnlyAfterAction ==
    (/\ ex.d # Absent
     /\ StatusOf(ex.d)
     /\ cmd_status.status = "complete")
    => ex.pc \in {"sleep", "process_command"}

\* C35: a guarded operation without override writes its command to the command
\* slot only while the recording flag is not active.
C35_GuardedPublishNotRecording ==
    [][\A c \in Callers :
         (/\ Publishes(c)
          /\ callers'[c].op \in GuardedOps \cup DisableOps
          /\ ~ callers'[c].danger_mode)
         => ~ RecordingActive]_vars

\* C39: the key of a live Executor does not expire while the Executor waits
\* for an external action, however long the action runs.
C39_HeartbeatWhileAlive ==
    [][(InAction /\ clock' # clock /\ script_key # Absent)
         => script_key' # Absent]_vars

\* C34: an operation called with its default timeout returns in the end, also
\* when the record of its envelope stays running for ever.
C34_EveryCallReturns ==
    \A c \in Callers :
       (/\ Polling(c)
        /\ WaitTimeout(c) = NoTime
        /\ ~ Malformed(cmd_status)
        /\ StatusOf(SentBy(c))
        /\ cmd_status.status = "running")
       ~> (callers[c].pc = "done")

\* C36: a Caller's wait ends in a timeout only at a pass of the loop that read
\* the record of its own envelope with status running, so only for an envelope
\* that an Executor had accepted.
C36_TimeoutOnlyOnOwnRunning ==
    [][\A c \in Callers :
         (Returns(c) /\ callers'[c].resp = "timeout")
         => /\ cmd_status # EmptyHash
            /\ StatusOf(SentBy(c))
            /\ cmd_status.status = "running"
            /\ \E i \in Executors :
                  <<i, Identity(SentBy(c))>> \in hist.dispatched_by]_vars

\* C36 witness: the wait of _stop or restart on its stop command has ended
\* in a timeout on the running record of that command, and hard_stop is about
\* to be published.
C36_Witness ==
    \E c \in Callers :
       /\ callers[c].op \in {"restart", "_stop"}
       /\ callers[c].pc = "send" /\ callers[c].cmd = "hard_stop"
       /\ callers[c].resp = "timeout"
       /\ SentBy(c).command = "stop"
       /\ StatusOf(SentBy(c)) /\ cmd_status.status = "running"
       /\ <<1, Identity(SentBy(c))>> \in hist.dispatched_by

\* the fields _create_status writes
StatusFields == {"command", "time", "args", "status", "update_time"}

\* C37: the status slot is empty or holds one well-formed record: the five
\* fields of _create_status (and completion_time once the command has been
\* complete), a status among running, complete and errored, and the arguments
\* of its own command; and when a record of another command appears in the
\* slot it has those five fields only, nothing of the record before it.
C37_OneWellFormedRecord ==
    /\ [](cmd_status # EmptyHash
           => /\ StatusFields \subseteq DOMAIN cmd_status
              /\ DOMAIN cmd_status \subseteq StatusFields \cup {"completion_time"}
              /\ cmd_status.status \in {"running", "complete", "errored"}
              /\ hist.owner # Absent => StatusOf(hist.owner)
              /\ DOMAIN JsonLoads(cmd_status.args) =
                    DOMAIN OpArgs(IF cmd_status.command = "record"
                                  THEN "take_data" ELSE cmd_status.command, 0))
    /\ [][(/\ cmd_status' # EmptyHash
           /\ \/ cmd_status = EmptyHash
              \/ cmd_status'.command # cmd_status.command
              \/ cmd_status'.time # cmd_status.time)
          => /\ DOMAIN cmd_status' = StatusFields
             /\ cmd_status'.status = "running"]_vars

\* C37 witness: the running record of a second command is in the slot after a
\* first command was handled to its end.
C37_Witness ==
    /\ cmd_status # EmptyHash
    /\ DOMAIN cmd_status = StatusFields
    /\ cmd_status.status = "running"
    /\ Cardinality(hist.dispatched) = 2
    /\ ex.d # Absent /\ StatusOf(ex.d)

\* in this step the Executor's _update_status writes the status hash
UpdatesStatus ==
    /\ ex.pc \in {"stop_capture", "take_data", "record_finish", "xtor_down", "xtor_up"}
    /\ cmd_status # EmptyHash
    /\ cmd_status' # cmd_status

\* C38: _update_status leaves the command and time of the record as they are,
\* removes no field, adds no field but completion_time, and keeps every
\* argument of the record with its value, except an argument for which a
\* result of the same name is given (starttime, by the record command).
C38_UpdateStatusFrame ==
    [][UpdatesStatus
         => /\ cmd_status'.command = cmd_status.command
            /\ cmd_status'.time = cmd_status.time
            /\ DOMAIN cmd_status \subseteq DOMAIN cmd_status'
            /\ DOMAIN cmd_status' \subseteq DOMAIN cmd_status \cup {"completion_time"}
            /\ LET args == JsonLoads(cmd_status.args)
                   new_args == JsonLoads(cmd_status'.args)
               IN  /\ DOMAIN new_args \subseteq DOMAIN args \cup {"starttime"}
                   /\ \A k \in DOMAIN args :
                         /\ k \in DOMAIN new_args
                         /\ \/ new_args[k] = args[k]
                            \/ ex.pc = "record_finish" /\ k = "starttime"]_vars

\* C38 witness: the record command was handled to its end: its record is
\* complete, holds the start time accepted in place of the one requested, and
\* still holds the other arguments of the command.
C38_Witness ==
    /\ ex.pc = "sleep" /\ ex.d # Absent /\ ex.d.command = "record"
    /\ StatusOf(ex.d) /\ cmd_status.status = "complete"
    /\ LET args == JsonLoads(cmd_status.args)
       IN  /\ args.starttime # ex.d.args.starttime
           /\ args.duration = ex.d.args.duration
           /\ args.tag = ex.d.args.tag
           /\ args.acclen = ex.d.args.acclen

\* the hash holds a record that is not the answer to what Caller c sent
OtherRecord(c) ==
    /\ cmd_status # EmptyHash
    /\ ~ Matches(cmd_status, SentBy(c))

\* C40: a Caller that reads a status record whose command and time are not
\* both those of its envelope goes on polling, whatever the order of the
\* record's time and the command name: the pass of its loop gives `continue`,
\* as that of a Caller that makes no such comparison, and no step takes the
\* Caller out of the loop or changes what it will return.
C40_OtherRecordsAlike ==
    /\ [](\A c \in Callers :
            (Polling(c) /\ OtherRecord(c))
              => GetResponsePoll(cmd_status, SentBy(c), WaitTimeout(c),
                                 callers[c].wait_time, clock)
                   = [kind |-> "continue"])
    /\ [][\A c \in Callers :
            (Polling(c) /\ OtherRecord(c))
              => /\ callers'[c].pc = "get_response"
                 /\ callers'[c].ret = callers[c].ret
                 /\ callers'[c].sent = callers[c].sent]_vars

\* C40 witness: past its deadline, a Caller made a pass of its loop over the
\* record of another envelope and is still polling, the record still there.
C40_Witness ==
    \E c \in Callers :
      /\ Polling(c) /\ OtherRecord(c)
      /\ callers[c].late_saw = "other"
      /\ StrLess(cmd_status.time, SentBy(c).command)

====
